---- MODULE Spec2Model ----
(***************************************************************************)
(* Model of the Pomodoro timer of src/script.js: the session state         *)
(* machine (mode, cycleCount, timeRemaining, isRunning), the countdown     *)
(* loop driven by requestAnimationFrame, and the three button handlers.    *)
(*                                                                         *)
(* Time.  performance.now() and the frame timestamps are one monotonic     *)
(* clock.  The model measures it in units of 1/UnitsPerSecond second, so   *)
(* the test `deltaTime >= 1000` (milliseconds) reads                       *)
(* `deltaTime >= UnitsPerSecond`.  Each loop closure's `lastTime` is kept  *)
(* as the distance `age = now - lastTime`, which is all the code reads.    *)
(*                                                                         *)
(* Frame callbacks.  `frames` is the browser's list of animation frame     *)
(* callbacks: one entry per requestAnimationFrame(loop) not yet run or     *)
(* cancelled, with the handle the request returned.                        *)
(***************************************************************************)
EXTENDS Integers, FiniteSets, Sequences, TLC

VARIABLES
    query,     \* window.location.search: the value of each startup parameter
    config,    \* script.js:15  { work, short, long, auto, sound }
    state,     \* script.js:16  { mode, timeRemaining, isRunning, cycleCount, timerInterval }
    audioCtx,  \* script.js:25  TRUE once initAudio() has created the context
    frames,    \* pending requestAnimationFrame callbacks: [id, age, stale]
    shown,     \* the snapshot [mode, timeRemaining] the last render() displayed
    lastStep,  \* observer: what the last handler did
    renderRise,\* observer: the last handler's renders showed timeRemaining rising within a mode
    observeRun,\* observer switch: TRUE in the specifications that follow a run
    runT,      \* observer: time units since the start of the current unbroken run, -1 if none
    runDec     \* observer: decrements of timeRemaining during that run

vars == <<query, config, state, audioCtx, frames, shown, lastStep, renderRise, observeRun, runT, runDec>>

\* ---------------------------------------------------------------- bounds

\* Resolution of the clock: time units per second.
UnitsPerSecond == 2
\* A frame callback is delivered at most MaxDelta units after the loop's lastTime.
MaxDelta == 4
\* Largest configured duration (minutes) that Init draws.
MaxMinutes == 2
\* The observers runT/runDec follow a run for at most MaxSpan units.
MaxSpan == 6
\* At most MaxPending entries in the list of animation frame callbacks.
MaxPending == 2
\* Longest value of a numeric startup parameter that SpecParse draws.
MaxLen == 3

\* ------------------------------------------------------------- constants

SecondsPerMinute == 60
LongBreakEvery == 4
LongBreakFrom == 3

\* config.sound: the default 'bell' stands for every value that is not
\* 'none' (the handlers compare it with 'none' only).
Sounds == {"bell", "none"}
Minutes == 1..MaxMinutes

\* ------------------------------------------------- startup parameters
\* The value of a numeric parameter is a sequence of characters; the value
\* of `auto` and `sound` is a string, "" when the parameter is absent or
\* empty (the code treats the two alike for these).

DEFAULTS == [work |-> 25, short |-> 5, long |-> 15, auto |-> FALSE, sound |-> "bell"]

\* params.get(key) of an absent key is null, which parseInt reads as "null".
Absent == <<"n", "u", "l", "l">>

HexChars == <<"0", "1", "2", "3", "4", "5", "6", "7", "8", "9", "a", "b", "c", "d", "e", "f">>

IsDigit(c, radix) == \E i \in 1..radix : HexChars[i] = c

DigitValue(c) == (CHOOSE i \in 1..Len(HexChars) : HexChars[i] = c) - 1

Drop(str, n) == SubSeq(str, n + 1, Len(str))

RECURSIVE TrimLeft(_)
TrimLeft(str) ==
    IF str # <<>> /\ Head(str) = " " THEN TrimLeft(Tail(str)) ELSE str

\* The value of the longest prefix of str made of digits of the radix, and
\* whether there was any digit; acc is the value read so far.
RECURSIVE ReadDigits(_, _, _, _)
ReadDigits(str, radix, acc, any) ==
    IF str # <<>> /\ IsDigit(Head(str), radix)
    THEN ReadDigits(Tail(str), radix, acc * radix + DigitValue(Head(str)), TRUE)
    ELSE [nan |-> ~any, val |-> acc]

\* parseInt(string) without a radix: leading blanks, a sign, a 0x prefix,
\* then the longest run of digits; NaN when there is none.
parseInt(str) ==
    LET s1 == TrimLeft(str)
        signed == s1 # <<>> /\ Head(s1) \in {"+", "-"}
        sign == IF s1 # <<>> /\ Head(s1) = "-" THEN -1 ELSE 1
        s2 == IF signed THEN Tail(s1) ELSE s1
        hex == Len(s2) >= 2 /\ s2[1] = "0" /\ s2[2] \in {"x", "X"}
        r == IF hex
             THEN ReadDigits(Drop(s2, 2), 16, 0, FALSE)
             ELSE ReadDigits(s2, 10, 0, FALSE)
    IN  [nan |-> r.nan, val |-> sign * r.val]

\* Mutant: getPositiveIntParam() with `val >= 0`.
getPositiveIntParamNonNegative(value, defaultVal) ==
    LET val == parseInt(value) IN
    IF ~val.nan /\ val.val >= 0 THEN val.val ELSE defaultVal

\* getPositiveIntParam(params, key, defaultVal), value = params.get(key)
getPositiveIntParam(value, defaultVal) ==
    LET val == parseInt(value) IN
    IF ~val.nan /\ val.val > 0 THEN val.val ELSE defaultVal

\* parseUrlParams(), from the query q over the configuration cfg.
parseUrlParams(q, cfg) ==
    [work  |-> getPositiveIntParam(q.work, DEFAULTS.work),
     short |-> getPositiveIntParam(q.short, DEFAULTS.short),
     long  |-> getPositiveIntParam(q.long, DEFAULTS.long),
     auto  |-> IF q.auto # "" THEN (q.auto = "true" \/ q.auto = "1") ELSE cfg.auto,
     sound |-> IF q.sound # "" THEN q.sound ELSE cfg.sound]

\* The decimal numeral of a configured number of minutes (one digit).
MinuteStrings == {<<HexChars[n + 1]>> : n \in Minutes}

\* ------------------------------------------------------- pure operations

\* Mutant: the two break durations swapped.
setModeTimeSwapped(s) ==
    IF s.mode = "WORK" THEN [s EXCEPT !.timeRemaining = config.work * SecondsPerMinute]
    ELSE IF s.mode = "SHORT" THEN [s EXCEPT !.timeRemaining = config.long * SecondsPerMinute]
    ELSE IF s.mode = "LONG" THEN [s EXCEPT !.timeRemaining = config.short * SecondsPerMinute]
    ELSE s

\* setModeTime(): the full duration of the current mode, in seconds.
setModeTime(s) ==
    IF s.mode = "WORK" THEN [s EXCEPT !.timeRemaining = config.work * SecondsPerMinute]
    ELSE IF s.mode = "SHORT" THEN [s EXCEPT !.timeRemaining = config.short * SecondsPerMinute]
    ELSE IF s.mode = "LONG" THEN [s EXCEPT !.timeRemaining = config.long * SecondsPerMinute]
    ELSE s

\* Mutant: the long break does not reset the cycle count.
nextModeKeepsCycle(s) ==
    IF s.mode = "WORK" THEN
        IF s.cycleCount % LongBreakEvery = 0 THEN
            IF s.cycleCount >= LongBreakFrom
            THEN [s EXCEPT !.mode = "LONG"]
            ELSE [s EXCEPT !.mode = "SHORT"]
        ELSE [s EXCEPT !.mode = "SHORT"]
    ELSE IF s.mode = "SHORT" THEN
        [s EXCEPT !.mode = "WORK", !.cycleCount = s.cycleCount + 1]
    ELSE IF s.mode = "LONG" THEN
        [s EXCEPT !.mode = "WORK"]
    ELSE s

\* The branch of completeSession() that picks the next mode and cycle count.
nextMode(s) ==
    IF s.mode = "WORK" THEN
        IF s.cycleCount % LongBreakEvery = 0 THEN
            IF s.cycleCount >= LongBreakFrom
            THEN [s EXCEPT !.mode = "LONG"]
            ELSE [s EXCEPT !.mode = "SHORT"]
        ELSE [s EXCEPT !.mode = "SHORT"]
    ELSE IF s.mode = "SHORT" THEN
        [s EXCEPT !.mode = "WORK", !.cycleCount = s.cycleCount + 1]
    ELSE IF s.mode = "LONG" THEN
        [s EXCEPT !.mode = "WORK", !.cycleCount = 1]
    ELSE s

\* ------------------------------------------------- the callback list

Handles(fs) == {cb.id : cb \in fs}

\* requestAnimationFrame returns a handle no pending callback has.  The only
\* use of a handle is cancelAnimationFrame(state.timerInterval), and every
\* request overwrites state.timerInterval, so a handle whose callback has
\* run or been cancelled can be handed out again.
NewHandle(fs) ==
    CHOOSE h \in 1..(Cardinality(fs) + 1) :
        /\ h \notin Handles(fs)
        /\ \A k \in 1..(h - 1) : k \in Handles(fs)

cancelAnimationFrame(fs, h) == {cb \in fs : cb.id # h}

\* Observer: every callback still pending when the timer is logically
\* stopped was requested before that stop.
MarkStale(fs) == {[cb EXCEPT !.stale = TRUE] : cb \in fs}

\* ---------------------------------------------- handlers over a world
\* A world w is [state, frames, sounded, renders]: the session state, the
\* callback list, whether playSound() has been called by the current handler,
\* and the snapshots displayed so far, starting with the one on display when
\* the handler began.

World == [state |-> state, frames |-> frames, sounded |-> FALSE, renders |-> <<shown>>]

\* What render() displays of the state: the mode label and the time.
Snapshot(s) == [mode |-> s.mode, timeRemaining |-> s.timeRemaining]

\* render()
render(w) == [w EXCEPT !.renders = Append(w.renders, Snapshot(w.state))]

\* Mutant: startTimer() without its `if (state.isRunning) return`.
startTimerUnguarded(w) ==
    LET h == NewHandle(w.frames) IN
    render([w EXCEPT !.state.isRunning = TRUE,
                     !.state.timerInterval = h,
                     !.frames = w.frames \cup {[id |-> h, age |-> 0, stale |-> FALSE]}])

\* startTimer() with the loop's lastTime = performance.now() (age 0).
startTimer(w) ==
    IF w.state.isRunning THEN w
    ELSE LET h == NewHandle(w.frames) IN
         render([w EXCEPT !.state.isRunning = TRUE,
                          !.state.timerInterval = h,
                          !.frames = w.frames \cup {[id |-> h, age |-> 0, stale |-> FALSE]}])

\* Mutant: pauseTimer() that also puts the countdown back to the full duration.
pauseTimerRewinds(w) ==
    render([w EXCEPT !.state = setModeTime([w.state EXCEPT !.isRunning = FALSE]),
                     !.frames = IF w.state.timerInterval # 0
                                THEN cancelAnimationFrame(MarkStale(w.frames), w.state.timerInterval)
                                ELSE MarkStale(w.frames)])

\* Mutant: pauseTimer() without cancelAnimationFrame.
pauseTimerNoCancel(w) ==
    render([w EXCEPT !.state.isRunning = FALSE,
                     !.frames = MarkStale(w.frames)])

\* pauseTimer()
pauseTimer(w) ==
    render([w EXCEPT !.state.isRunning = FALSE,
                     !.frames = IF w.state.timerInterval # 0
                                THEN cancelAnimationFrame(MarkStale(w.frames), w.state.timerInterval)
                                ELSE MarkStale(w.frames)])

\* Mutant: completeSession() that plays the sound on a skip too.
completeSessionAlwaysSounds(w, skipped) ==
    LET w1 == pauseTimer(w)
        w2 == render([w1 EXCEPT !.state.timeRemaining = 0])
        w3 == [w2 EXCEPT !.sounded = (config.sound # "none")]
        w4 == [w3 EXCEPT !.state = setModeTime(nextMode(w3.state))]
    IN  IF config.auto THEN startTimer(w4) ELSE render(w4)

\* Mutant: completeSession() that never starts the next session by itself.
completeSessionNoAuto(w, skipped) ==
    LET w1 == pauseTimer(w)
        w2 == render([w1 EXCEPT !.state.timeRemaining = 0])
        w3 == [w2 EXCEPT !.sounded = (~skipped /\ config.sound # "none")]
        w4 == [w3 EXCEPT !.state = setModeTime(nextMode(w3.state))]
    IN  render(w4)

\* completeSession(skipped)
completeSession(w, skipped) ==
    LET w1 == pauseTimer(w)
        w2 == render([w1 EXCEPT !.state.timeRemaining = 0])
        w3 == [w2 EXCEPT !.sounded = (~skipped /\ config.sound # "none")]
        w4 == [w3 EXCEPT !.state = setModeTime(nextMode(w3.state))]
    IN  IF config.auto THEN startTimer(w4) ELSE render(w4)

\* skipSession()
skipSession(w) == completeSession(pauseTimer(w), TRUE)

\* Mutant: resetCycle() without setModeTime().
resetCycleKeepsTime(w) ==
    LET s1 == [w.state EXCEPT !.mode = "WORK", !.cycleCount = 1]
    IN  render([w EXCEPT !.state = [s1 EXCEPT !.isRunning = FALSE],
                         !.frames = MarkStale(w.frames)])

\* resetCycle()
resetCycle(w) ==
    LET s1 == [w.state EXCEPT !.mode = "WORK", !.cycleCount = 1]
        s2 == setModeTime(s1)
    IN  render([w EXCEPT !.state = [s2 EXCEPT !.isRunning = FALSE],
                         !.frames = MarkStale(w.frames)])

\* Mutant: loop() that completes the session only below zero.
loopLate(w, cb) ==
    LET w0 == [w EXCEPT !.frames = w.frames \ {cb}]
        deltaTime == cb.age
        rerequest(x, age) ==
            LET h == NewHandle(x.frames) IN
            [x EXCEPT !.state.timerInterval = h,
                      !.frames = x.frames \cup {[id |-> h, age |-> age, stale |-> cb.stale]}]
    IN  IF ~w0.state.isRunning THEN w0
        ELSE IF deltaTime >= UnitsPerSecond THEN
            LET w1 == [w0 EXCEPT !.state.timeRemaining = w0.state.timeRemaining - 1] IN
            IF w1.state.timeRemaining < 0
            THEN completeSession(w1, FALSE)
            ELSE rerequest(render(w1), 0)
        ELSE rerequest(w0, deltaTime)

\* Mutant: loop() that completes the session one second early.
loopEarly(w, cb) ==
    LET w0 == [w EXCEPT !.frames = w.frames \ {cb}]
        deltaTime == cb.age
        rerequest(x, age) ==
            LET h == NewHandle(x.frames) IN
            [x EXCEPT !.state.timerInterval = h,
                      !.frames = x.frames \cup {[id |-> h, age |-> age, stale |-> cb.stale]}]
    IN  IF ~w0.state.isRunning THEN w0
        ELSE IF deltaTime >= UnitsPerSecond THEN
            LET w1 == [w0 EXCEPT !.state.timeRemaining = w0.state.timeRemaining - 1] IN
            IF w1.state.timeRemaining <= 1
            THEN completeSession(w1, FALSE)
            ELSE rerequest(render(w1), 0)
        ELSE rerequest(w0, deltaTime)

\* Mutant: loop() that counts a second on every callback after the first unit.
loopEager(w, cb) ==
    LET w0 == [w EXCEPT !.frames = w.frames \ {cb}]
        deltaTime == cb.age
        rerequest(x, age) ==
            LET h == NewHandle(x.frames) IN
            [x EXCEPT !.state.timerInterval = h,
                      !.frames = x.frames \cup {[id |-> h, age |-> age, stale |-> cb.stale]}]
    IN  IF ~w0.state.isRunning THEN w0
        ELSE IF deltaTime >= 1 THEN
            LET w1 == [w0 EXCEPT !.state.timeRemaining = w0.state.timeRemaining - 1] IN
            IF w1.state.timeRemaining <= 0
            THEN completeSession(w1, FALSE)
            ELSE rerequest(render(w1), 0)
        ELSE rerequest(w0, deltaTime)

\* One run of the callback `loop` of startTimer(), for the pending entry cb.
\* The browser removes the entry from the list before it runs the callback.
loop(w, cb) ==
    LET w0 == [w EXCEPT !.frames = w.frames \ {cb}]
        deltaTime == cb.age
        rerequest(x, age) ==
            LET h == NewHandle(x.frames) IN
            [x EXCEPT !.state.timerInterval = h,
                      !.frames = x.frames \cup {[id |-> h, age |-> age, stale |-> cb.stale]}]
    IN  IF ~w0.state.isRunning THEN w0
        ELSE IF deltaTime >= UnitsPerSecond THEN
            LET w1 == [w0 EXCEPT !.state.timeRemaining = w0.state.timeRemaining - 1] IN
            IF w1.state.timeRemaining <= 0
            THEN completeSession(w1, FALSE)
            ELSE rerequest(render(w1), 0)
        ELSE rerequest(w0, deltaTime)

\* ----------------------------------------------------------------- Init

\* Observer record of a step: the operation, whether it completed a session,
\* called playSound(), decremented timeRemaining, ran a callback left over
\* from before a stop, and the mode and cycle count it started from.
Step(op, completed, sounded, dec, stale) ==
    [op |-> op, completed |-> completed, sounded |-> sounded, dec |-> dec, stale |-> stale,
     from |-> [mode |-> state.mode, cycleCount |-> state.cycleCount]]

\* Observer: some snapshot shows the mode of the one before it with more time.
Rises(seq) ==
    \E i \in 1..(Len(seq) - 1) :
        /\ seq[i + 1].mode = seq[i].mode
        /\ seq[i + 1].timeRemaining > seq[i].timeRemaining

\* The state after init(): parseUrlParams() has set config, resetCycle() the state.
InitProgram ==
    /\ query \in [work : MinuteStrings, short : MinuteStrings, long : MinuteStrings,
                  auto : {"", "true"},
                  sound : {IF x = DEFAULTS.sound THEN "" ELSE x : x \in Sounds}]
    /\ config = parseUrlParams(query, DEFAULTS)
    /\ state = [mode |-> "WORK", timeRemaining |-> config.work * SecondsPerMinute,
                isRunning |-> FALSE, cycleCount |-> 1, timerInterval |-> 0]
    /\ audioCtx = FALSE
    /\ frames = {}
    /\ shown = Snapshot(state)
    /\ lastStep = Step("init", FALSE, FALSE, FALSE, FALSE)
    /\ renderRise = FALSE
    /\ runT = -1
    /\ runDec = 0

Init == InitProgram /\ observeRun = FALSE

\* Observer update: a run starts (t = 0), ends (t = -1) or goes on.
Observe(t, d) ==
    /\ observeRun' = observeRun
    /\ runT' = IF observeRun THEN t ELSE runT
    /\ runDec' = IF observeRun THEN d ELSE runDec

\* -------------------------------------------------------------- actions

Commit(w) ==
    /\ state' = w.state
    /\ frames' = w.frames
    /\ shown' = w.renders[Len(w.renders)]
    /\ renderRise' = Rises(w.renders)

\* Click on the start button: initAudio(); startTimer().
Start ==
    /\ Cardinality(frames) < MaxPending
    /\ Commit(startTimer(World))
    /\ audioCtx' = TRUE
    /\ lastStep' = Step("start", FALSE, FALSE, FALSE, FALSE)
    /\ IF state.isRunning THEN Observe(runT, runDec) ELSE Observe(0, 0)
    /\ UNCHANGED <<query, config>>

\* Click on the pause button: pauseTimer().
Pause ==
    /\ Commit(pauseTimer(World))
    /\ lastStep' = Step("pause", FALSE, FALSE, FALSE, FALSE)
    /\ Observe(-1, 0)
    /\ UNCHANGED <<query, config, audioCtx>>

\* Click on the skip/reset button: skipSession().
Skip ==
    /\ Cardinality(frames) < MaxPending
    /\ LET w == skipSession(World) IN
        /\ Commit(w)
        /\ lastStep' = Step("skip", TRUE, w.sounded, FALSE, FALSE)
        /\ Observe(IF w.state.isRunning THEN 0 ELSE -1, 0)
    /\ UNCHANGED <<query, config, audioCtx>>

\* The browser runs one pending animation frame callback.
Frame ==
    \E cb \in frames :
        LET w == loop(World, cb)
            counted == state.isRunning /\ cb.age >= UnitsPerSecond
            completed == counted /\ state.timeRemaining - 1 <= 0
        IN  /\ Commit(w)
            /\ lastStep' = Step("frame", completed, w.sounded, counted, cb.stale)
            /\ IF completed
               THEN Observe(IF w.state.isRunning THEN 0 ELSE -1, 0)
               ELSE Observe(runT, IF counted /\ runT >= 0 THEN runDec + 1 ELSE runDec)
            /\ UNCHANGED <<query, config, audioCtx>>

\* The clock advances by one unit while callbacks are pending; the observer
\* runT follows the run for at most span units.
Tick(span) ==
    /\ frames # {}
    /\ \A cb \in frames : cb.age < MaxDelta
    /\ frames' = {[cb EXCEPT !.age = cb.age + 1] : cb \in frames}
    /\ lastStep' = Step("advance", FALSE, FALSE, FALSE, FALSE)
    /\ IF runT >= 0 /\ runT < span THEN Observe(runT + 1, runDec) ELSE Observe(-1, 0)
    /\ renderRise' = FALSE
    /\ UNCHANGED <<query, config, state, audioCtx, shown>>

Advance == Tick(MaxSpan)

Next == Start \/ Pause \/ Skip \/ Frame \/ Advance

Spec == Init /\ [][Next]_vars

\* resetCycle() called as an operation of its own, in any state.  The page
\* calls it from init() only; the specification SpecReset adds it as the
\* reset() operation, callable in any state of the session.  It is not
\* called a second time while a callback left over from an earlier stop is
\* still pending, which keeps the callback list at two entries.
Reset ==
    /\ \A cb \in frames : ~cb.stale
    /\ Commit(resetCycle(World))
    /\ lastStep' = Step("reset", FALSE, FALSE, FALSE, FALSE)
    /\ Observe(-1, 0)
    /\ UNCHANGED <<query, config, audioCtx>>

NextReset == Next \/ Reset

\* SpecReset keeps the break durations and the sound at one value each:
\* resetCycle() reads config.work only.
InitReset ==
    /\ Init
    /\ config.short = 1
    /\ config.long = 1
    /\ config.sound = "bell"

SpecReset == InitReset /\ [][NextReset]_vars

\* The specification that follows each unbroken run with runT and runDec.
InitDrift ==
    /\ InitProgram
    /\ observeRun = TRUE
    /\ config.short = 1
    /\ config.long = 1
    /\ config.sound = "bell"

SpecDrift == InitDrift /\ [][Next]_vars

\* The scenario of a start() from the initial state followed by frame
\* callbacks at exact one-second intervals, with auto-advance on and no sound.
InitSeconds ==
    /\ InitProgram
    /\ observeRun = TRUE
    /\ config.auto
    /\ config.sound = "none"

StartOnce == lastStep.op = "init" /\ Start

SecondPasses ==
    /\ \A cb \in frames : cb.age < UnitsPerSecond
    /\ Tick(MaxMinutes * SecondsPerMinute * UnitsPerSecond)

FrameOnTheSecond ==
    /\ \A cb \in frames : cb.age = UnitsPerSecond
    /\ Frame

NextSeconds == StartOnce \/ SecondPasses \/ FrameOnTheSecond

SpecSeconds == InitSeconds /\ [][NextSeconds]_vars

\* The page before init() has run: config = { ...DEFAULTS }, the state as
\* declared, and a query in which one numeric parameter has any value of at
\* most MaxLen characters and the other two are absent.
Chars == {"0", "1", "5", "-", " ", ".", "a", "x"}

Strings == UNION {[1..k -> Chars] : k \in 0..MaxLen} \cup {Absent}

InitLoad ==
    /\ \E key \in {"work", "short", "long"}, v \in Strings,
          a \in {"", "1"}, snd \in {"", "none"} :
         query = [work  |-> IF key = "work" THEN v ELSE Absent,
                  short |-> IF key = "short" THEN v ELSE Absent,
                  long  |-> IF key = "long" THEN v ELSE Absent,
                  auto  |-> a,
                  sound |-> snd]
    /\ config = DEFAULTS
    /\ state = [mode |-> "WORK", timeRemaining |-> 0, isRunning |-> FALSE,
                cycleCount |-> 1, timerInterval |-> 0]
    /\ audioCtx = FALSE
    /\ frames = {}
    /\ shown = Snapshot(state)
    /\ lastStep = Step("load", FALSE, FALSE, FALSE, FALSE)
    /\ renderRise = FALSE
    /\ observeRun = FALSE
    /\ runT = -1
    /\ runDec = 0

\* init(): parseUrlParams(); setupEventListeners(); resetCycle(); render().
Boot ==
    /\ lastStep.op = "load"
    /\ config' = parseUrlParams(query, config)
    /\ LET s1 == [state EXCEPT !.mode = "WORK", !.cycleCount = 1]
           s2 == IF s1.mode = "WORK"
                 THEN [s1 EXCEPT !.timeRemaining = config'.work * SecondsPerMinute]
                 ELSE s1
       IN  /\ state' = [s2 EXCEPT !.isRunning = FALSE]
           /\ shown' = Snapshot(state')
    /\ lastStep' = Step("init", FALSE, FALSE, FALSE, FALSE)
    /\ renderRise' = FALSE
    /\ UNCHANGED <<query, audioCtx, frames, observeRun, runT, runDec>>

SpecParse == InitLoad /\ [][Boot]_vars

\* Auto-advance on and no pause(): one start(), then the browser delivers
\* every requested frame callback, at the latest when a full second has
\* passed since the last accounted tick, and the clock keeps advancing.
InitLive ==
    /\ InitProgram
    /\ observeRun = FALSE
    /\ config.auto
    /\ config.short = 1
    /\ config.long = 1
    /\ config.sound = "none"

NextLive == StartOnce \/ SecondPasses \/ Frame

SpecLive == InitLive /\ [][NextLive]_vars /\ WF_vars(Frame) /\ WF_vars(SecondPasses)

\* ------------------------------------------------------------ properties

\* The full duration of a mode in seconds, as configured.
FullDuration(m) ==
    SecondsPerMinute *
        (IF m = "WORK" THEN config.work ELSE IF m = "SHORT" THEN config.short ELSE config.long)

\* The mode transition table of the design: WORK(n<3) -> SHORT, WORK(3) -> LONG,
\* SHORT -> WORK(n+1), LONG -> WORK(1).
TableNext(s) ==
    IF s.mode = "WORK"
    THEN [mode |-> IF s.cycleCount >= 3 THEN "LONG" ELSE "SHORT", cycleCount |-> s.cycleCount]
    ELSE IF s.mode = "SHORT"
    THEN [mode |-> "WORK", cycleCount |-> s.cycleCount + 1]
    ELSE [mode |-> "WORK", cycleCount |-> 1]

\* C1: without auto-advance, every session that completes by its countdown
\* is followed by the next mode of WORK, SHORT, WORK, SHORT, WORK, LONG, WORK:
\* the third WORK session is followed by LONG, and the cycle number of the
\* successive WORK sessions is 1, 2, 3, 1, ...
C1_ModeSequence ==
    [][(lastStep'.op = "frame" /\ lastStep'.completed /\ ~config.auto)
          => /\ state'.mode = TableNext(state).mode
             /\ state'.cycleCount = TableNext(state).cycleCount]_vars

\* C2: the cycle counter is an integer in [1,3] in every reachable state.
C2_CycleRange == state.cycleCount \in 1..3

\* C3: after a frame callback of an unbroken run that has lasted runT time
\* units, timeRemaining has been decremented exactly floor(runT /
\* UnitsPerSecond) times.
C3_ExactDrift ==
    (lastStep.op = "frame" /\ runT >= 0) => runDec = runT \div UnitsPerSecond

\* C4: start() while running changes neither the session state nor the list
\* of pending frame callbacks (no second loop, no reset of a loop's lastTime).
C4_StartWhileRunningNoOp ==
    [][(lastStep'.op = "start" /\ state.isRunning)
          => (state' = state /\ frames' = frames)]_vars

C4_Witness ==
    /\ lastStep.op = "start"
    /\ state.isRunning
    /\ state.timeRemaining < FullDuration(state.mode)
    /\ \E cb \in frames : cb.age > 0

\* C5: pause() sets isRunning to false and leaves mode, cycleCount and
\* timeRemaining as they were; called while not running it leaves the whole
\* session state as it was.
C5_PauseFrame ==
    [][lastStep'.op = "pause"
          => /\ state'.isRunning = FALSE
             /\ state'.mode = state.mode
             /\ state'.cycleCount = state.cycleCount
             /\ state'.timeRemaining = state.timeRemaining
             /\ (~state.isRunning => state' = state)]_vars

C5_Witness ==
    /\ lastStep.op = "pause"
    /\ ~state.isRunning
    /\ state.mode = "SHORT"
    /\ state.timeRemaining < FullDuration(state.mode)

\* C6: while the timer is stopped no frame callback is pending, and a pending
\* callback is never one requested before a pause or skip: it is the one
\* state.timerInterval names, also after start() follows the pause at once.
C6_NoStaleCallback ==
    /\ ~state.isRunning => frames = {}
    /\ \A cb \in frames : ~cb.stale /\ cb.id = state.timerInterval

C6_Witness ==
    /\ lastStep.op = "start"
    /\ state.timeRemaining < FullDuration(state.mode)
    /\ frames = {[id |-> state.timerInterval, age |-> 0, stale |-> FALSE]}

\* C7: playSound is called by a handler exactly when that handler completes
\* a session by the countdown reaching zero and config.sound is not 'none';
\* never by skip.
C7_SoundOnlyOnCountdown ==
    lastStep.sounded <=>
        (lastStep.op = "frame" /\ lastStep.completed /\ config.sound # "none")

C7_Witness ==
    /\ lastStep.sounded
    /\ lastStep.op = "frame"
    /\ config.sound = "bell"
    /\ state.mode = "SHORT"

\* C8: after a session completion (countdown or skip) timeRemaining is the
\* full duration of the new mode and isRunning equals config.auto, with a
\* frame callback pending exactly when it is true.
C8_AfterCompletion ==
    lastStep.completed =>
        /\ state.timeRemaining = FullDuration(state.mode)
        /\ state.isRunning = config.auto
        /\ (frames # {}) = config.auto

C8_Witness ==
    /\ lastStep.completed
    /\ lastStep.op = "frame"
    /\ config.auto
    /\ state.isRunning
    /\ state.mode = "LONG"
    /\ config.long # config.short

\* C9: after resetCycle() (and after init()) the state is mode WORK, cycle 1,
\* timeRemaining = work * 60 and not running.
C9_ResetState ==
    lastStep.op \in {"init", "reset"} =>
        /\ state.mode = "WORK"
        /\ state.cycleCount = 1
        /\ state.timeRemaining = config.work * SecondsPerMinute
        /\ state.isRunning = FALSE

C9_Witness ==
    /\ lastStep.op = "reset"
    /\ config.work = MaxMinutes
    /\ \E cb \in frames : cb.age > 0

\* C10: a frame callback requested before a reset() never decrements
\* timeRemaining after it.
C10_ResetCancels == ~(lastStep.op = "frame" /\ lastStep.stale /\ lastStep.dec)

AllDecimal(str) == str # <<>> /\ \A i \in 1..Len(str) : IsDigit(str[i], 10)

RECURSIVE DecimalValue(_)
DecimalValue(str) ==
    IF str = <<>> THEN 0
    ELSE 10 * DecimalValue(SubSeq(str, 1, Len(str) - 1)) + DigitValue(str[Len(str)])

IsPositiveInteger(str) == AllDecimal(str) /\ DecimalValue(str) > 0

\* A value with no number at its start: absent, empty, or, after blanks and
\* a sign, beginning with something that is not a digit.
NoNumber(str) ==
    LET t == TrimLeft(str)
        u == IF t # <<>> /\ Head(t) \in {"+", "-"} THEN Tail(t) ELSE t
    IN  u = <<>> \/ ~IsDigit(Head(u), 10)

IsZero(str) == AllDecimal(str) /\ DecimalValue(str) = 0

IsNegative(str) == str # <<>> /\ Head(str) = "-" /\ AllDecimal(Tail(str))

NumericKeys == {"work", "short", "long"}

\* C12 as stated: after parseUrlParams() each duration is the value of its
\* parameter when that is a positive integer, and the default for every
\* other value.
C12_PositiveOrDefault ==
    lastStep.op = "init" =>
        \A key \in NumericKeys :
            config[key] = IF IsPositiveInteger(query[key])
                          THEN DecimalValue(query[key])
                          ELSE DEFAULTS[key]

\* C12 as amended: each duration is a positive integer; a parameter made of
\* decimal digits denoting a positive integer is used as given; an absent or
\* empty one, one that does not begin with a number, a zero and a negative
\* number give the default.
C12_PositiveAlways ==
    lastStep.op = "init" =>
        \A key \in NumericKeys :
            /\ config[key] \in Nat
            /\ config[key] > 0
            /\ IsPositiveInteger(query[key]) => config[key] = DecimalValue(query[key])
            /\ (NoNumber(query[key]) \/ IsZero(query[key]) \/ IsNegative(query[key]))
                  => config[key] = DEFAULTS[key]

C12_Witness ==
    /\ lastStep.op = "init"
    /\ query.work = <<"-", "5">>
    /\ config.work = DEFAULTS.work

\* C13: with auto-advance on and frame callbacks on the second, the first
\* WORK session ends exactly work * 60 seconds after start(), and the state
\* is then SHORT, short * 60, running, cycle 1.
C13_ExactSeconds ==
    /\ [](state.mode = "WORK" /\ state.cycleCount = 1 /\ runT >= 0
            => runT <= config.work * SecondsPerMinute * UnitsPerSecond)
    /\ [][(lastStep'.op = "frame" /\ lastStep'.completed
             /\ state.mode = "WORK" /\ state.cycleCount = 1)
            => /\ runT = config.work * SecondsPerMinute * UnitsPerSecond
               /\ state'.mode = "SHORT"
               /\ state'.timeRemaining = config.short * SecondsPerMinute
               /\ state'.isRunning
               /\ state'.cycleCount = 1]_vars

C13_Witness ==
    /\ lastStep.op = "frame"
    /\ lastStep.completed
    /\ config.work = 1 /\ config.short = 1 /\ config.long = 1
    /\ state.mode = "SHORT"
    /\ state.timeRemaining = 60
    /\ state.isRunning
    /\ state.cycleCount = 1

Max(a, b) == IF a >= b THEN a ELSE b

\* C14: a frame callback that arrives k whole seconds after the last
\* accounted tick decrements timeRemaining by k, clamped at 0, and completes
\* the session when the result is 0; with k = 0 it changes nothing.
C14_WholeSeconds ==
    [][(lastStep'.op = "frame" /\ state.isRunning)
          => \A cb \in frames :
                LET k == cb.age \div UnitsPerSecond
                    r == Max(0, state.timeRemaining - k)
                IN  /\ lastStep'.completed = (k >= 1 /\ r = 0)
                    /\ ~lastStep'.completed => state'.timeRemaining = r]_vars

\* C15: between operations timeRemaining is an integer from 1 to the full
\* duration of the current mode.
C15_TimeRange ==
    /\ state.timeRemaining \in Int
    /\ state.timeRemaining >= 1
    /\ state.timeRemaining <= SecondsPerMinute *
          (IF state.mode = "WORK" THEN config.work
           ELSE IF state.mode = "SHORT" THEN config.short ELSE config.long)

C15_Witness ==
    /\ state.timeRemaining = 1
    /\ state.isRunning
    /\ lastStep.op = "frame"
    /\ lastStep.dec

\* C16: a step changes the mode or the cycle count only if it is skip() or a
\* frame callback whose decrement brings the countdown to zero.
C16_ModeChangeOnlyOnCompletion ==
    (lastStep.from.mode # state.mode \/ lastStep.from.cycleCount # state.cycleCount)
        => (lastStep.op = "skip" \/ (lastStep.op = "frame" /\ lastStep.completed))

C16_Witness ==
    /\ lastStep.from.mode = "WORK"
    /\ state.mode = "SHORT"
    /\ lastStep.op = "frame"
    /\ lastStep.completed
    /\ config.auto

\* C17: LONG -> WORK sets the cycle count to 1 and nothing else sets it to 1
\* from another value; SHORT -> WORK adds one; leaving WORK keeps it.
C17_CycleCounter ==
    /\ (lastStep.from.mode = "LONG" /\ state.mode = "WORK") => state.cycleCount = 1
    /\ (state.cycleCount = 1 /\ lastStep.from.cycleCount # 1) => lastStep.from.mode = "LONG"
    /\ (lastStep.from.mode = "SHORT" /\ state.mode = "WORK")
          => state.cycleCount = lastStep.from.cycleCount + 1
    /\ (lastStep.from.mode = "WORK" /\ state.mode # "WORK")
          => state.cycleCount = lastStep.from.cycleCount

C17_Witness ==
    /\ lastStep.from.mode = "LONG"
    /\ lastStep.from.cycleCount # 1
    /\ state.mode = "WORK"
    /\ state.cycleCount = 1

\* C18: at most one frame callback is pending, and one is pending exactly
\* while isRunning is true.
C18_OneLoop ==
    /\ Cardinality(frames) <= 1
    /\ (frames # {}) <=> state.isRunning

C18_Witness ==
    /\ Cardinality(frames) = 1
    /\ state.isRunning
    /\ lastStep.op = "skip"
    /\ state.timerInterval # 0

\* C20: the countdown never gains ticks: in an unbroken run within one
\* session that has lasted runT time units the number of decrements is at
\* most floor(runT / UnitsPerSecond); a frame callback decrements by at most
\* one, and only when a full second has passed since the last accounted tick.
C20_NoGainedTicks ==
    /\ [](runT >= 0 => runDec <= runT \div UnitsPerSecond)
    /\ [][(lastStep'.op = "frame" /\ state.isRunning)
            => \A cb \in frames :
                  LET d == IF lastStep'.completed
                           THEN state.timeRemaining
                           ELSE state.timeRemaining - state'.timeRemaining
                  IN  /\ d \in {0, 1}
                      /\ d = 1 => cb.age >= UnitsPerSecond
                      /\ (~lastStep'.completed /\ runT >= 0 /\ runT' >= 0)
                            => runDec' = runDec + d]_vars

C20_Witness ==
    /\ lastStep.op = "frame"
    /\ lastStep.dec
    /\ runDec = 2
    /\ runT = 2 * UnitsPerSecond
    /\ state.timeRemaining = FullDuration(state.mode) - 2

\* C19: with auto-advance on and no pause(), once the countdown runs every
\* session eventually ends: the LONG break is always reached again, and each
\* LONG break is followed by WORK with the cycle count back at 1.
C19_LongBreakRecurs ==
    /\ [](state.isRunning => <>(state.mode = "LONG"))
    /\ (state.isRunning /\ state.mode = "LONG")
          ~> (state.mode = "WORK" /\ state.cycleCount = 1)

C19_Witness ==
    /\ config.auto
    /\ state.isRunning
    /\ state.mode = "WORK"
    /\ state.cycleCount = 1
    /\ lastStep.op = "frame"
    /\ lastStep.completed
    /\ lastStep.from.mode = "LONG"

====
